---- MODULE Spec2Model ----
(***************************************************************************)
(* Model of verifier/poa_verify_full.py: the proof-of-availability         *)
(* verifier.  A text is a sequence of one-character strings; an optional   *)
(* value (Python's Optional[...]) is the empty sequence (None) or a        *)
(* one-element sequence.                                                   *)
(***************************************************************************)
EXTENDS Integers, Sequences, FiniteSets, TLC

----------------------------------------------------------------------------
(* Python string primitives used by the verifier *)

Min(S) == CHOOSE x \in S : \A y \in S : x <= y

Max(S) == CHOOSE x \in S : \A y \in S : x >= y

Abs(n) == IF n < 0 THEN -n ELSE n

\* str.strip() with no argument strips these (the ones the model's texts use)
Whitespace == {" ", "\n", "\t"}

\* index of the first character of s not in cs, Len(s)+1 when there is none
FirstNotIn(s, cs) == Min({i \in 1..(Len(s) + 1) : i = Len(s) + 1 \/ s[i] \notin cs})

\* index of the last character of s not in cs, 0 when there is none
LastNotIn(s, cs) == Max({i \in 0..Len(s) : i = 0 \/ s[i] \notin cs})

\* s.strip(cs)
StripChars(s, cs) == SubSeq(s, FirstNotIn(s, cs), LastNotIn(s, cs))

\* s.rstrip(cs)
RStripChars(s, cs) == SubSeq(s, 1, LastNotIn(s, cs))

\* s.strip()
Strip(s) == StripChars(s, Whitespace)

\* p occurs in s at index i
StartsAt(s, p, i) ==
    /\ i >= 1
    /\ i + Len(p) - 1 <= Len(s)
    /\ \A k \in 1..Len(p) : s[i + k - 1] = p[k]

\* the r-th smallest element of a set of integers
Nth(K, r) == CHOOSE i \in K : Cardinality({j \in K : j <= i}) = r

\* the characters of s that are not in cs, in order: s.replace(c, "") for c in cs
Without(s, cs) ==
    LET K == {i \in 1..Len(s) : s[i] \notin cs}
    IN  [r \in 1..Cardinality(K) |-> s[Nth(K, r)]]

\* s.split(c): the pieces between the occurrences of c, empty pieces kept
RECURSIVE Split(_, _)
Split(s, c) ==
    LET cut == Min({i \in 1..(Len(s) + 1) : i = Len(s) + 1 \/ s[i] = c})
    IN  IF cut = Len(s) + 1 THEN <<s>>
        ELSE <<SubSeq(s, 1, cut - 1)>> \o Split(SubSeq(s, cut + 1, Len(s)), c)

\* s.splitlines(): as split on the newline, but a text with no line has none
SplitLines(s) ==
    IF s = <<>> THEN <<>>
    ELSE IF s[Len(s)] = "\n" THEN Split(SubSeq(s, 1, Len(s) - 1), "\n")
    ELSE Split(s, "\n")

\* "".join(parts)
RECURSIVE Join(_)
Join(parts) == IF parts = <<>> THEN <<>> ELSE Head(parts) \o Join(Tail(parts))

\* r.join(parts)
RECURSIVE JoinWith(_, _)
JoinWith(parts, r) ==
    IF Len(parts) <= 1 THEN Join(parts)
    ELSE Head(parts) \o r \o JoinWith(Tail(parts), r)

\* s.replace(c, r) for a single character c
Replace(s, c, r) == JoinWith(Split(s, c), r)

HexChars ==
    {"0", "1", "2", "3", "4", "5", "6", "7", "8", "9",
     "a", "b", "c", "d", "e", "f", "A", "B", "C", "D", "E", "F"}

\* str.lower() on one character; the verifier lower-cases hexadecimal text only
LowerChar(c) ==
    CASE c = "A" -> "a" [] c = "B" -> "b" [] c = "C" -> "c"
      [] c = "D" -> "d" [] c = "E" -> "e" [] c = "F" -> "f"
      [] OTHER -> c

Lower(s) == [i \in 1..Len(s) |-> LowerChar(s[i])]

----------------------------------------------------------------------------
(* _clean_dig_txt *)

\* _QUOTED_TXT_RE.findall(s): the texts between the 1st and 2nd double quote,
\* the 3rd and 4th, ...; a last unpaired quote matches nothing
QuotedParts(s) ==
    LET Q == {i \in 1..Len(s) : s[i] = "\""}
    IN  [k \in 1..(Cardinality(Q) \div 2) |->
            SubSeq(s, Nth(Q, 2 * k - 1) + 1, Nth(Q, 2 * k) - 1)]

\* a plausible slip: the quoted parts are joined with a space between them
_clean_dig_txt_Spaced(raw) ==
    LET out == Strip(raw)
        parts == QuotedParts(out)
    IN  IF out = <<>> THEN <<>>
        ELSE IF parts # <<>> THEN Strip(JoinWith(parts, <<" ">>))
        ELSE Strip(Without(out, {"\""}))

_clean_dig_txt(raw) ==
    LET out == Strip(raw)
        parts == QuotedParts(out)
    IN  IF out = <<>> THEN <<>>
        ELSE IF parts # <<>> THEN Strip(Join(parts))
        ELSE Strip(Without(out, {"\""}))

----------------------------------------------------------------------------
(* parse_dns_txt *)

TS_MARK == <<"T","S","=">>
SHA_MARK == <<"S","H","A","2","5","6","=">>
FILE_MARK == <<"F","I","L","E","=">>

\* the {64} of the SHA256 pattern
HashLen == 64

\* re.search(mark + "([^;]+)", s): the group of the leftmost match, or None;
\* the group runs to the next ';' or to the end of s
SearchField(s, mark) ==
    LET n == Len(mark)
        hits == {i \in 1..Len(s) :
                    StartsAt(s, mark, i) /\ i + n <= Len(s) /\ s[i + n] # ";"}
    IN  IF hits = {} THEN <<>>
        ELSE LET b == Min(hits) + n
                 e == Min({j \in b..(Len(s) + 1) : j = Len(s) + 1 \/ s[j] = ";"})
             IN  <<SubSeq(s, b, e - 1)>>

\* re.search(r"SHA256=([0-9a-fA-F]{64})", s): the group of the leftmost match, or
\* None; the group is the 64 characters after the marker, whatever follows them
SearchSha(s) ==
    LET n == Len(SHA_MARK)
        hits == {i \in 1..Len(s) :
                    /\ StartsAt(s, SHA_MARK, i)
                    /\ i + n + HashLen - 1 <= Len(s)
                    /\ \A k \in 0..(HashLen - 1) : s[i + n + k] \in HexChars}
    IN  IF hits = {} THEN <<>>
        ELSE <<SubSeq(s, Min(hits) + n, Min(hits) + n + HashLen - 1)>>

NoProof == [ts_iso |-> <<>>, sha256 |-> <<>>, filename |-> <<>>]

\* the result of a call: exc names the exception raised ("" when none)
Returned(v) == [exc |-> "", val |-> v]

Raised(kind, dflt) == [exc |-> kind, val |-> dflt]

parse_dns_txt(raw) ==
    LET txt == StripChars(Strip(raw), {"\""})
        m_ts == SearchField(txt, TS_MARK)
        m_sha == SearchSha(txt)
        m_file == SearchField(txt, FILE_MARK)
    IN  IF m_ts = <<>> \/ m_sha = <<>>
        THEN Raised("Unrecognized TXT format", NoProof)
        ELSE Returned([ts_iso |-> m_ts[1],
                       sha256 |-> Lower(m_sha[1]),
                       filename |-> m_file])

----------------------------------------------------------------------------
(* iso_to_unix *)

Digits == {"0", "1", "2", "3", "4", "5", "6", "7", "8", "9"}

DigitVal(c) ==
    CASE c = "0" -> 0 [] c = "1" -> 1 [] c = "2" -> 2 [] c = "3" -> 3
      [] c = "4" -> 4 [] c = "5" -> 5 [] c = "6" -> 6 [] c = "7" -> 7
      [] c = "8" -> 8 [] c = "9" -> 9

AllDigits(s, i, n) == i + n - 1 <= Len(s) /\ \A k \in i..(i + n - 1) : s[k] \in Digits

RECURSIVE Num(_, _, _)
Num(s, i, n) == IF n = 0 THEN 0 ELSE 10 * Num(s, i, n - 1) + DigitVal(s[i + n - 1])

IsLeap(y) == (y % 4 = 0 /\ y % 100 # 0) \/ y % 400 = 0

DaysInMonth(y, m) ==
    IF m = 2 THEN (IF IsLeap(y) THEN 29 ELSE 28)
    ELSE IF m \in {4, 6, 9, 11} THEN 30 ELSE 31

\* days from 1970-01-01 to the proleptic Gregorian date y-m-d (y >= 1)
DaysFromCivil(y, m, d) ==
    LET yy == IF m <= 2 THEN y - 1 ELSE y
        era == yy \div 400
        yoe == yy - era * 400
        mp == (m + 9) % 12
        doy == (153 * mp + 2) \div 5 + d - 1
        doe == yoe * 365 + yoe \div 4 - yoe \div 100 + doy
    IN  era * 146097 + doe - 719468

\* "YYYY-MM-DD" at the head of s, with a date that exists
DateOk(s) ==
    /\ Len(s) >= 10
    /\ AllDigits(s, 1, 4) /\ s[5] = "-" /\ AllDigits(s, 6, 2) /\ s[8] = "-"
    /\ AllDigits(s, 9, 2)
    /\ Num(s, 1, 4) >= 1
    /\ Num(s, 6, 2) \in 1..12
    /\ Num(s, 9, 2) \in 1..DaysInMonth(Num(s, 1, 4), Num(s, 6, 2))

\* "HH:MM" at index i of s
HourMinuteOk(s, i) ==
    /\ AllDigits(s, i, 2) /\ StartsAt(s, <<":">>, i + 2) /\ AllDigits(s, i + 3, 2)
    /\ Num(s, i, 2) <= 23 /\ Num(s, i + 3, 2) <= 59

\* "HH:MM:SS" at index i of s
TimeOk(s, i) ==
    /\ AllDigits(s, i, 2) /\ StartsAt(s, <<":">>, i + 2) /\ AllDigits(s, i + 3, 2)
    /\ StartsAt(s, <<":">>, i + 5) /\ AllDigits(s, i + 6, 2)
    /\ Num(s, i, 2) <= 23 /\ Num(s, i + 3, 2) <= 59 /\ Num(s, i + 6, 2) <= 59

\* "+HH:MM" or "-HH:MM" at index i of s, ending s
OffsetOk(s, i) ==
    /\ Len(s) = i + 5
    /\ s[i] \in {"+", "-"}
    /\ AllDigits(s, i + 1, 2) /\ s[i + 3] = ":" /\ AllDigits(s, i + 4, 2)
    /\ Num(s, i + 1, 2) <= 23 /\ Num(s, i + 4, 2) <= 59

OffsetSeconds(s, i) ==
    (IF s[i] = "-" THEN -1 ELSE 1) * (Num(s, i + 1, 2) * 3600 + Num(s, i + 4, 2) * 60)

\* datetime.fromisoformat(s) followed by int(dt.timestamp()), for the shapes
\* YYYY-MM-DD, YYYY-MM-DD?HH:MM, YYYY-MM-DD?HH:MM:SS and
\* YYYY-MM-DD?HH:MM:SS(+|-)HH:MM (? is any one character); a text that starts otherwise is a ValueError (the shorter
\* and the fractional forms fromisoformat also reads are given to it nowhere
\* here).  A datetime with no offset is
\* naive, and timestamp() reads a naive datetime as local time: local_utcoffset
\* is the host zone's offset from UTC in seconds.
FromIsoTimestamp(s, local_utcoffset) ==
    IF ~DateOk(s) THEN Raised("ValueError", 0)
    ELSE LET days == DaysFromCivil(Num(s, 1, 4), Num(s, 6, 2), Num(s, 9, 2))
             secs == Num(s, 12, 2) * 3600 + Num(s, 15, 2) * 60 + Num(s, 18, 2)
         IN  IF Len(s) = 10 THEN Returned(days * 86400 - local_utcoffset)
             ELSE IF Len(s) = 16 /\ HourMinuteOk(s, 12)
             THEN Returned(days * 86400 + Num(s, 12, 2) * 3600 + Num(s, 15, 2) * 60
                               - local_utcoffset)
             ELSE IF ~TimeOk(s, 12) THEN Raised("ValueError", 0)
             ELSE IF Len(s) = 19 THEN Returned(days * 86400 + secs - local_utcoffset)
             ELSE IF ~OffsetOk(s, 20) THEN Raised("ValueError", 0)
             ELSE Returned(days * 86400 + secs - OffsetSeconds(s, 20))

UTC_OFFSET == <<"+","0","0",":","0","0">>

iso_to_unix(ts_iso, local_utcoffset) ==
    FromIsoTimestamp(Replace(ts_iso, "Z", UTC_OFFSET), local_utcoffset)

----------------------------------------------------------------------------
(* verdict_from_hash_and_skew *)

WARN_SKEW_SECONDS == 10 * 60

FAIL_SKEW_SECONDS == 60 * 60

\* a plausible slip: a skew beyond FAIL_SKEW_SECONDS fails the run
verdict_FailBeyond(hash_ok, skew) ==
    IF ~hash_ok THEN "FAIL"
    ELSE IF Abs(skew) <= WARN_SKEW_SECONDS THEN "OK"
    ELSE IF Abs(skew) <= FAIL_SKEW_SECONDS THEN "WARN"
    ELSE "FAIL"

verdict_from_hash_and_skew(hash_ok, skew) ==
    IF ~hash_ok THEN "FAIL"
    ELSE IF Abs(skew) <= WARN_SKEW_SECONDS THEN "OK"
    ELSE IF Abs(skew) <= FAIL_SKEW_SECONDS THEN "WARN"
    ELSE "WARN"

----------------------------------------------------------------------------
(* the file system, as the verifier reads it *)

\* A file system is the sequence of its entries in the order os.listdir yields
\* them.  An entry is [path, mtime, digest, readable]: path is the absolute
\* path as a sequence of components, mtime its modification time in whole
\* seconds, digest the SHA-256 of its content as 64 lower-case hexadecimal
\* characters (hashlib's hexdigest), readable whether open(path, "rb") and
\* read succeed (a directory, or a file without read permission, is not).

DEFAULT_EXPORT_DIR == <<"/","p","r","o","o","f","/","e","x","p","o","r","t","s">>

LOOKBACK_FILES == 300

GLOB_PREFIX == <<"h","e","a","r","t","b","e","a","t","s","_">>

GLOB_SUFFIX == <<".","j","s","o","n">>

\* os.path.join(a, b)
PathJoin(a, b) ==
    IF b # <<>> /\ b[1] = "/" THEN b
    ELSE IF a = <<>> \/ a[Len(a)] = "/" THEN a \o b
    ELSE a \o <<"/">> \o b

\* the components an absolute path resolves to: "" and "." name nothing, ".."
\* names the parent (the root is its own parent)
RECURSIVE Resolve(_, _)
Resolve(comps, acc) ==
    IF comps = <<>> THEN acc
    ELSE LET c == Head(comps)
         IN  IF c = <<>> \/ c = <<".">> THEN Resolve(Tail(comps), acc)
             ELSE IF c = <<".", ".">>
             THEN Resolve(Tail(comps), SubSeq(acc, 1, Max({0, Len(acc) - 1})))
             ELSE Resolve(Tail(comps), Append(acc, c))

RealPath(p) == Resolve(Split(p, "/"), <<>>)

\* the indices of the entries of fs whose resolved path is rp (none or one)
AtPath(fs, rp) == {i \in 1..Len(fs) : fs[i].path = rp}

\* the indices of the entries of fs at path p
Lookup(fs, p) == AtPath(fs, RealPath(p))

\* os.path.exists(p)
PathExists(fs, p) == Lookup(fs, p) # {}

\* os.path.getmtime(p), truncated by int(); p exists
GetMTime(fs, p) == fs[CHOOSE i \in Lookup(fs, p) : TRUE].mtime

\* open and read of the entries at, then hexdigest
Digest(fs, at) ==
    IF \E i \in at : fs[i].readable
    THEN Returned(fs[CHOOSE i \in at : TRUE].digest)
    ELSE Raised("OSError", <<>>)

\* sha256_file(p)
sha256_file(fs, p) == Digest(fs, Lookup(fs, p))

\* fnmatch of a file name against heartbeats_*.json
GlobMatch(name) ==
    /\ Len(name) >= Len(GLOB_PREFIX) + Len(GLOB_SUFFIX)
    /\ StartsAt(name, GLOB_PREFIX, 1)
    /\ StartsAt(name, GLOB_SUFFIX, Len(name) - Len(GLOB_SUFFIX) + 1)

\* entry i of fs lies directly in the directory dir and its name matches
InGlob(fs, dir, i) ==
    /\ Len(fs[i].path) = Len(dir) + 1
    /\ SubSeq(fs[i].path, 1, Len(dir)) = dir
    /\ GlobMatch(fs[i].path[Len(fs[i].path)])

\* glob.glob(os.path.join(export_dir, "heartbeats_*.json")): the indices of the
\* matching entries, in os.listdir's order
Glob(fs, export_dir) ==
    SelectSeq([i \in 1..Len(fs) |-> i], LAMBDA i : InGlob(fs, RealPath(export_dir), i))

\* the order files.sort(key=os.path.getmtime, reverse=True) puts entries a and b
\* in: the newer first, and of two with one mtime the one the glob listed first
\* (the sort is stable)
SortsBefore(fs, a, b) ==
    \/ fs[a].mtime > fs[b].mtime
    \/ fs[a].mtime = fs[b].mtime /\ a < b

\* the paths of the first n entries of order
FirstPaths(fs, export_dir, order, n) ==
    [r \in 1..Min({n, Len(order)}) |->
        PathJoin(export_dir, fs[order[r]].path[Len(fs[order[r]].path)])]

\* a plausible slip: the sorted list is returned whole, without the [:n] cut
newest_files_Uncut(fs, export_dir, n) ==
    FirstPaths(fs, export_dir,
               SortSeq(Glob(fs, export_dir), LAMBDA a, b : SortsBefore(fs, a, b)),
               Len(fs))

\* newest_files(export_dir, n): the n most recently modified matches of the glob
newest_files(fs, export_dir, n) ==
    FirstPaths(fs, export_dir,
               SortSeq(Glob(fs, export_dir), LAMBDA a, b : SortsBefore(fs, a, b)), n)

----------------------------------------------------------------------------
(* find_local_match *)

\* what find_local_match returns (path, how: None or a value) and the paths it
\* passed to sha256_file, in call order
MatchResult(path, how, hashed) == [path |-> path, how |-> how, hashed |-> hashed]

\* line 166: sha256_file returned h, and it is the digest wanted
IsHit(h, sha) == h.exc = "" /\ Lower(h.val) = sha

\* a plausible slip: a file that cannot be hashed ends the scan with no match
HashScan_StopsAtError(fs, files, sha) ==
    LET hits == {k \in 1..Len(files) : IsHit(sha256_file(fs, files[k]), sha)}
        errs == {k \in 1..Len(files) : sha256_file(fs, files[k]).exc # ""}
        stop == Min(hits \cup errs)
    IN  IF hits \cup errs = {} THEN MatchResult(<<>>, <<>>, files)
        ELSE IF stop \in errs THEN MatchResult(<<>>, <<>>, SubSeq(files, 1, stop))
        ELSE MatchResult(<<files[stop]>>, <<"matched_by_hash_scan">>,
                         SubSeq(files, 1, stop))

\* the loop over files (lines 164-169): it returns at the first file that
\* sha256_file can read and whose digest is sha, having hashed every file up to it
HashScan(fs, files, sha) ==
    LET hits == {k \in 1..Len(files) : IsHit(sha256_file(fs, files[k]), sha)}
    IN  IF hits = {} THEN MatchResult(<<>>, <<>>, files)
        ELSE MatchResult(<<files[Min(hits)]>>, <<"matched_by_hash_scan">>,
                         SubSeq(files, 1, Min(hits)))

\* a plausible slip: the hinted file is returned only once its digest is confirmed
find_local_match_HashConfirmed(fs, export_dir, proof) ==
    LET candidate == PathJoin(export_dir, proof.filename[1])
    IN  IF /\ proof.filename # <<>>
           /\ PathExists(fs, candidate)
           /\ IsHit(sha256_file(fs, candidate), proof.sha256)
        THEN MatchResult(<<candidate>>, <<"matched_by_filename">>, <<>>)
        ELSE HashScan(fs, newest_files(fs, export_dir, LOOKBACK_FILES), proof.sha256)

find_local_match(fs, export_dir, proof) ==
    LET candidate == PathJoin(export_dir, proof.filename[1])
    IN  IF proof.filename # <<>> /\ PathExists(fs, candidate)
        THEN MatchResult(<<candidate>>, <<"matched_by_filename">>, <<>>)
        ELSE HashScan(fs, newest_files(fs, export_dir, LOOKBACK_FILES), proof.sha256)

----------------------------------------------------------------------------
(* the run: state *)

VARIABLES
    env,          \* the process environment and the host, fixed for the run
    pc,           \* where the run stands
    ns_list,      \* dig_txt_authoritative: the nameservers to try
    tried,        \* dig_txt_authoritative: how many of ns_list the loop has visited
    last_err,     \* dig_txt_authoritative: None or the last exception caught
    queries,      \* every dig command run so far, with its reply, in order
    dns_txt,      \* main: the TXT value fetched
    used_ns,      \* main: the source it came from
    exc,          \* the exception propagating out of the run (kind "" when none)
    proof,        \* main: None or the parsed DnsProof
    found,        \* main: None or what find_local_match returned, with the files it hashed
    stdout,       \* the lines printed, as <<label, value>>
    exit_code,    \* None or the status the process ended with
    call          \* a single function applied to an argument: [fn, arg, done, res]

runVars == <<ns_list, tried, last_err, queries, dns_txt, used_ns, exc>>

mainVars == <<proof, found, stdout, exit_code>>

vars == <<env, pc, ns_list, tried, last_err, queries, dns_txt, used_ns, exc,
          proof, found, stdout, exit_code, call>>

DNS_NAME_DEFAULT == "_poa.uptimeproof.io"

DNS_ZONE_DEFAULT == "uptimeproof.io"

SYSTEM_RESOLVER == <<"S","Y","S","T","E","M","_","R","E","S","O","L","V","E","R">>

\* os.getenv(name, default) of a variable that is None (unset) or <<value>>
Getenv(v, default) == IF v = <<>> THEN default ELSE v[1]

NoExc == [kind |-> "", name |-> "", zone |-> "", last_err |-> <<>>]

\* the RuntimeError that run raises when the command exits non-zero
CommandFailed == [kind |-> "Command failed", name |-> "", zone |-> "", last_err |-> <<>>]

\* a dig command and what it answered: qtype NS or TXT, server None (the system
\* resolver) or <<nameserver>> (dig @nameserver), reply [rc, out]
Query(qtype, server, qname, reply) ==
    [qtype |-> qtype, server |-> server, qname |-> qname, reply |-> reply]

\* run(cmd): the command's stripped standard output, or RuntimeError
run(reply) ==
    IF reply.rc # 0 THEN Raised("Command failed", <<>>) ELSE Returned(Strip(reply.out))

\* a plausible slip: the items are taken as they are written
HostNames_Verbatim(items) == items

\* [x.strip().rstrip(".") for x in items if x.strip()]
RECURSIVE HostNames(_)
HostNames(items) ==
    IF items = <<>> THEN <<>>
    ELSE (IF Strip(Head(items)) # <<>>
          THEN <<RStripChars(Strip(Head(items)), {"."})>> ELSE <<>>)
         \o HostNames(Tail(items))

\* a plausible slip: a failed lookup is taken as a zone with no nameserver
_get_authoritative_ns_Swallows(reply) ==
    IF run(reply).exc # "" THEN Returned(<<>>)
    ELSE Returned(HostNames(SplitLines(run(reply).val)))

\* _get_authoritative_ns, given dig's reply
_get_authoritative_ns(reply) ==
    IF run(reply).exc # "" THEN Raised("Command failed", <<>>)
    ELSE Returned(HostNames(SplitLines(run(reply).val)))

----------------------------------------------------------------------------
(* the inputs the runs are checked on *)

\* how many candidate files beyond LOOKBACK_FILES the largest directory holds
MaxExtra == 1

\* the two nameservers of the zone
NsA == <<"a">>

NsB == <<"b">>

TsZ == <<"2","0","2","4","-","0","1","-","0","1","T","0","0",":","0","0",":","0","0","Z">>

TsNaive == <<"2","0","2","4","-","0","1","-","0","1","T","0","0",":","0","0",":","0","0">>

TsOffset == <<"2","0","2","4","-","0","1","-","0","1","T","0","1",":","0","0",":","0","0","+","0","1",":","0","0">>

TsBad == <<"s","o","o","n">>

\* the time the published proofs carry: 2024-01-01T00:00:00Z
BaseTime == iso_to_unix(TsZ, 0).val

HexA == [i \in 1..HashLen |-> "a"]

HexB == [i \in 1..HashLen |-> "b"]

HexC == [i \in 1..HashLen |-> "c"]

UpperA == [i \in 1..HashLen |-> "A"]

NameA == <<"h","e","a","r","t","b","e","a","t","s","_","1",".","j","s","o","n">>

NameB == <<"h","e","a","r","t","b","e","a","t","s","_","2",".","j","s","o","n">>

NameGone == <<"h","e","a","r","t","b","e","a","t","s","_","9",".","j","s","o","n">>

NameUp == <<".",".","/","o","t","h","e","r",".","j","s","o","n">>

NameAbs == <<"/","e","t","c","/","p","a","s","s","w","d">>

\* the TXT value TS=<ts>;SHA256=<sha>[;FILE=<file>], file None or <<name>>
Txt(ts, sha, file) ==
    TS_MARK \o ts \o <<";">> \o SHA_MARK \o sha
        \o (IF file = <<>> THEN <<>> ELSE <<";">> \o FILE_MARK \o file[1])

Quoted(t) == <<"\"">> \o t \o <<"\"">>

\* what dig answers: its exit status and its standard output
Ok(out) == [rc |-> 0, out |-> out]

Failed == [rc |-> 9, out |-> <<>>]

\* answers to dig +short NS <zone>
NsReplies ==
    {Failed, Ok(<<>>),
     Ok(NsA \o <<".", "\n">>),
     Ok(NsA \o <<".", "\n">> \o NsB \o <<".", "\n">>),
     Ok(NsB \o <<".", "\n">> \o NsA \o <<".", "\n">>)}

\* a TXT value split by dig into two quoted segments, inside the hash
SplitTxt ==
    LET t == Txt(TsZ, HexA, <<NameA>>)
    IN  Quoted(SubSeq(t, 1, 40)) \o <<" ">> \o Quoted(SubSeq(t, 41, Len(t)))

\* answers to dig [@ns] +short TXT <name>
TxtReplies ==
    {Failed, Ok(<<>>), Ok(Quoted(<<>>) \o <<"\n">>),
     Ok(Quoted(Txt(TsZ, HexA, <<NameA>>)) \o <<"\n">>),
     Ok(Quoted(Txt(TsZ, HexB, <<NameB>>)) \o <<"\n">>),
     Ok(Quoted(Txt(TsZ, UpperA, <<>>)) \o <<"\n">>),
     Ok(Quoted(Txt(TsZ, HexA, <<NameGone>>)) \o <<"\n">>),
     Ok(Quoted(Txt(TsNaive, HexA, <<NameA>>)) \o <<"\n">>),
     Ok(Quoted(Txt(TsBad, HexA, <<NameA>>)) \o <<"\n">>),
     Ok(Quoted(TS_MARK \o TsZ \o <<";">> \o FILE_MARK \o NameA) \o <<"\n">>),
     Ok(Quoted(Txt(TsZ, HexA, <<NameUp>>)) \o <<"\n">>),
     Ok(Quoted(Txt(TsZ, HexA, <<NameAbs>>)) \o <<"\n">>),
     Ok(SplitTxt \o <<"\n">>)}

ExportsPath == <<<<"p","r","o","o","f">>, <<"e","x","p","o","r","t","s">>>>

\* an entry of the export directory
Evidence(name, mtime, digest, readable) ==
    [path |-> Append(ExportsPath, name), mtime |-> mtime, digest |-> digest,
     readable |-> readable]

\* the entries every file system has outside the export directory:
\* /proof/other.json and /etc/passwd
Outside ==
    <<[path |-> <<<<"p","r","o","o","f">>, <<"o","t","h","e","r",".","j","s","o","n">>>>,
       mtime |-> BaseTime, digest |-> HexA, readable |-> TRUE],
      [path |-> <<<<"e","t","c">>, <<"p","a","s","s","w","d">>>>,
       mtime |-> BaseTime - 5000, digest |-> HexB, readable |-> TRUE]>>

DigitChar(k) == CHOOSE c \in Digits : DigitVal(c) = k

RECURSIVE Dec(_)
Dec(k) == IF k < 10 THEN <<DigitChar(k)>> ELSE Dec(k \div 10) \o <<DigitChar(k % 10)>>

\* heartbeats_1.json holding the proved content, older than n other evidence
\* files heartbeats_f<k>.json
CrowdedFs(n) ==
    <<Evidence(NameA, BaseTime, HexA, TRUE)>>
        \o [k \in 1..n |->
               Evidence(GLOB_PREFIX \o <<"f">> \o Dec(k) \o GLOB_SUFFIX,
                        BaseTime + k, HexC, TRUE)]
        \o Outside

SmallFileSystems ==
    {Outside,
     <<Evidence(NameA, BaseTime, HexA, TRUE),
       Evidence(NameB, BaseTime + 100, HexB, TRUE)>> \o Outside,
     <<Evidence(NameA, BaseTime + 600, HexB, TRUE),
       Evidence(NameB, BaseTime + 700, HexA, TRUE)>> \o Outside,
     <<Evidence(NameB, BaseTime - 601, HexA, TRUE),
       Evidence(NameA, BaseTime - 4000, HexA, TRUE)>> \o Outside,
     <<Evidence(NameA, BaseTime + 10, HexA, FALSE),
       Evidence(NameB, BaseTime - 600, HexA, TRUE)>> \o Outside,
     <<Evidence(NameB, BaseTime + 10, HexA, FALSE),
       Evidence(NameA, BaseTime + 3601, HexA, TRUE)>> \o Outside}

CrowdedFileSystems ==
    {CrowdedFs(n) : n \in (LOOKBACK_FILES - 1)..(LOOKBACK_FILES - 1 + MaxExtra)}

\* the host zone's offset from UTC, in seconds
LocalOffsets == {0, 3600}

\* POA_DNS_ALLOW_SYSTEM_RESOLVER: unset, or set to a text
FlagValues == {<<>>, <<<<"1">>>>, <<<<"0">>>>, <<<<"t","r","u","e">>>>}

\* POA_DNS_NS_OVERRIDE: unset, or set to a text
OverrideValues ==
    {<<>>, <<<<>>>>, <<NsA>>, <<NsA \o <<",">> \o NsB>>,
     <<NsB \o <<".", ",", " ">> \o NsA \o <<",", ",">>>>, <<<<" ">>>>}

Env(flag, override, fs, offset) ==
    [POA_DNS_ALLOW_SYSTEM_RESOLVER |-> flag, POA_DNS_NS_OVERRIDE |-> override,
     fs |-> fs, local_utcoffset |-> offset]

----------------------------------------------------------------------------
(* dig_txt_authoritative *)

NoCall == [fn |-> "", arg |-> <<>>, done |-> FALSE, res |-> <<>>]

\* the state of a process at position at that has run nothing yet
Fresh(e, at) ==
    /\ env = e
    /\ pc = at
    /\ ns_list = <<>>
    /\ tried = 0
    /\ last_err = <<>>
    /\ queries = <<>>
    /\ dns_txt = <<>>
    /\ used_ns = <<>>
    /\ exc = NoExc
    /\ proof = <<>>
    /\ found = <<>>
    /\ stdout = <<>>
    /\ exit_code = <<>>

\* the state of a run before main's first statement
Start(e) == Fresh(e, "resolve") /\ call = NoCall

\* lines 108-112 and _get_authoritative_ns: the override list when one is set,
\* else the zone's NS records from the system resolver
GetNameservers ==
    /\ pc = "resolve"
    /\ LET ns_override == Strip(Getenv(env.POA_DNS_NS_OVERRIDE, <<>>))
       IN  IF ns_override # <<>>
           THEN /\ ns_list' = HostNames(Split(ns_override, ","))
                /\ pc' = "try"
                /\ UNCHANGED <<queries, exc>>
           ELSE \E reply \in NsReplies :
                   /\ queries' = Append(queries,
                                        Query("NS", <<>>, DNS_ZONE_DEFAULT, reply))
                   /\ IF _get_authoritative_ns(reply).exc # ""
                      THEN /\ exc' = CommandFailed
                           /\ pc' = "raised"
                           /\ UNCHANGED ns_list
                      ELSE /\ ns_list' = _get_authoritative_ns(reply).val
                           /\ pc' = "try"
                           /\ UNCHANGED exc
    /\ UNCHANGED <<env, tried, last_err, dns_txt, used_ns, mainVars, call>>

\* a plausible slip: run's error is not caught, and ends the fetch
OnQueryError_Propagates(ns) ==
    /\ exc' = CommandFailed
    /\ pc' = "raised"
    /\ UNCHANGED <<last_err, tried, dns_txt, used_ns>>

\* lines 123-125: run's error is caught, remembered, and the loop goes on
OnQueryError(ns) ==
    /\ last_err' = <<[kind |-> "Command failed", server |-> ns]>>
    /\ tried' = tried + 1
    /\ UNCHANGED <<pc, dns_txt, used_ns, exc>>

\* lines 117-125: one turn of the loop over ns_list
TryNameserver ==
    /\ pc = "try"
    /\ tried < Len(ns_list)
    /\ LET ns == ns_list[tried + 1]
       IN  \E reply \in TxtReplies :
              /\ queries' = Append(queries,
                                   Query("TXT", <<ns>>, DNS_NAME_DEFAULT, reply))
              /\ IF run(reply).exc # "" THEN OnQueryError(ns)
                 ELSE IF _clean_dig_txt(run(reply).val) # <<>>
                 THEN /\ dns_txt' = _clean_dig_txt(run(reply).val)
                      /\ used_ns' = ns
                      /\ pc' = "fetched"
                      /\ UNCHANGED <<last_err, tried, exc>>
                 ELSE /\ tried' = tried + 1
                      /\ UNCHANGED <<pc, last_err, dns_txt, used_ns, exc>>
    /\ UNCHANGED <<env, ns_list, mainVars, call>>

\* the RuntimeError of line 134
NoTxtReturned ==
    [kind |-> "No TXT returned", name |-> DNS_NAME_DEFAULT, zone |-> DNS_ZONE_DEFAULT,
     last_err |-> last_err]

\* a plausible slip: the fallback is reached from inside the loop, after the
\* first nameserver that yields nothing
LoopDone_AfterFirst == tried >= 1

\* the for loop of line 117 has visited every nameserver of the list
LoopDone == tried = Len(ns_list)

\* a plausible slip: any value but 0 enables the fallback
FallbackAllowed_NotZero == Getenv(env.POA_DNS_ALLOW_SYSTEM_RESOLVER, <<"0">>) # <<"0">>

\* line 128
FallbackAllowed == Getenv(env.POA_DNS_ALLOW_SYSTEM_RESOLVER, <<"0">>) = <<"1">>

\* lines 127-136: after the loop, the system resolver if allowed, else the error
SystemFallback ==
    /\ pc = "try"
    /\ LoopDone
    /\ IF FallbackAllowed
       THEN \E reply \in TxtReplies :
               /\ queries' = Append(queries,
                                    Query("TXT", <<>>, DNS_NAME_DEFAULT, reply))
               /\ IF run(reply).exc # ""
                  THEN /\ exc' = CommandFailed
                       /\ pc' = "raised"
                       /\ UNCHANGED <<dns_txt, used_ns>>
                  ELSE IF _clean_dig_txt(run(reply).val) # <<>>
                  THEN /\ dns_txt' = _clean_dig_txt(run(reply).val)
                       /\ used_ns' = SYSTEM_RESOLVER
                       /\ pc' = "fetched"
                       /\ UNCHANGED exc
                  ELSE /\ exc' = NoTxtReturned
                       /\ pc' = "raised"
                       /\ UNCHANGED <<dns_txt, used_ns>>
       ELSE /\ exc' = NoTxtReturned
            /\ pc' = "raised"
            /\ UNCHANGED <<queries, dns_txt, used_ns>>
    /\ UNCHANGED <<env, ns_list, tried, last_err, mainVars, call>>

\* dig_txt_authoritative on its own, for every environment and every answer
InitFetch ==
    \E flag \in FlagValues, override \in OverrideValues :
        Start(Env(flag, override, Outside, 0))

NextFetch == GetNameservers \/ TryNameserver \/ SystemFallback

SpecFetch == InitFetch /\ [][NextFetch]_vars

----------------------------------------------------------------------------
(* main *)

\* what lines 200-227 leave behind: the exception raised ("" when none), the
\* proof parsed (None before), find_local_match's result (None before the
\* call), the lines printed, and the value main returns
Outcome(kind, p, m, lines, code) ==
    [exc |-> kind, proof |-> p, found |-> m, stdout |-> lines, code |-> code]

\* the status main returns for a verdict
ExitStatus(local_v) == IF local_v = "OK" THEN 0 ELSE IF local_v = "WARN" THEN 1 ELSE 2

\* lines 205-210
NoMatchReport(ns, txt, export_dir) ==
    <<<<"VERDICT", "FAIL">>,
      <<"DNS NS", ns>>,
      <<"DNS TXT", txt>>,
      <<"EXPORT_DIR", export_dir>>,
      <<"LOCAL", "FAIL (no matching export found in last 300 files)">>>>

\* lines 218-226
MatchReport(ns, txt, export_dir, m, sha, file_sha, skew, local_v) ==
    <<<<"VERDICT", local_v>>,
      <<"DNS NS", ns>>,
      <<"DNS TXT", txt>>,
      <<"EXPORT_DIR", export_dir>>,
      <<"Matched file", <<m.path[1], m.how[1]>>>>,
      <<"DNS SHA256", sha>>,
      <<"File SHA256", file_sha>>,
      <<"Skew seconds", skew>>,
      <<"LOCAL", local_v>>>>

\* lines 213-227: the digest h.val of the selected file against the proof's,
\* its mtime against the proof's time, and the report
Judge(e, txt, ns, export_dir, p, dns_ts_unix, m, h) ==
    LET file_sha == Lower(h.val)
        hash_ok == file_sha = p.sha256
        mtime == GetMTime(e.fs, m.path[1])
        skew == mtime - dns_ts_unix
        local_v == verdict_from_hash_and_skew(hash_ok, skew)
    IN  Outcome("", <<p>>, <<m>>,
                MatchReport(ns, txt, export_dir, m, p.sha256, file_sha, skew, local_v),
                <<ExitStatus(local_v)>>)

\* lines 204-212: no match is reported as FAIL; else the selected file is hashed
AfterMatch(e, txt, ns, export_dir, p, dns_ts_unix, m) ==
    IF m.path = <<>>
    THEN Outcome("", <<p>>, <<m>>, NoMatchReport(ns, txt, export_dir), <<2>>)
    ELSE IF sha256_file(e.fs, m.path[1]).exc # ""
    THEN Outcome(sha256_file(e.fs, m.path[1]).exc, <<p>>, <<m>>, <<>>, <<>>)
    ELSE Judge(e, txt, ns, export_dir, p, dns_ts_unix, m,
               sha256_file(e.fs, m.path[1]))

\* lines 201-203
AfterParse(e, txt, ns, export_dir, p, ts) ==
    IF ts.exc # "" THEN Outcome(ts.exc, <<p>>, <<>>, <<>>, <<>>)
    ELSE AfterMatch(e, txt, ns, export_dir, p, ts.val,
                    find_local_match(e.fs, export_dir, p))

\* lines 200-201
AfterFetch(e, txt, ns, export_dir, parsed) ==
    IF parsed.exc # "" THEN Outcome(parsed.exc, <<>>, <<>>, <<>>, <<>>)
    ELSE AfterParse(e, txt, ns, export_dir, parsed.val,
                    iso_to_unix(parsed.val.ts_iso, e.local_utcoffset))

\* lines 196-197: POA_EXPORT_DIR is not set
export_dir == RStripChars(DEFAULT_EXPORT_DIR, {"/"})

\* lines 199-227 of main, from the fetched TXT value on
Verify(e, txt, ns) == AfterFetch(e, txt, ns, export_dir, parse_dns_txt(txt))

\* the process state an outcome o of main leaves
Finish(o) ==
    /\ proof' = o.proof
    /\ found' = o.found
    /\ stdout' = o.stdout
    /\ IF o.exc # ""
       THEN /\ exc' = [NoExc EXCEPT !.kind = o.exc]
            /\ pc' = "raised"
            /\ UNCHANGED exit_code
       ELSE /\ exit_code' = o.code
            /\ pc' = "exited"
            /\ UNCHANGED exc

\* main after dig_txt_authoritative has returned; sys.exit(main()) ends the
\* process with the value returned
VerifyLocal ==
    /\ pc = "fetched"
    /\ Finish(Verify(env, dns_txt, used_ns))
    /\ UNCHANGED <<env, ns_list, tried, last_err, queries, dns_txt, used_ns, call>>

\* an exception no statement of the file catches leaves main and the module:
\* the interpreter prints the traceback on standard error and exits with 1
UncaughtExit ==
    /\ pc = "raised"
    /\ exit_code' = <<1>>
    /\ pc' = "exited"
    /\ UNCHANGED <<env, runVars, proof, found, stdout, call>>

\* the environments whole runs are checked on: every small file system under
\* each host zone with one nameserver configured, the zone's own nameservers
\* with and without the fallback, and the crowded directories
MainEnvs ==
    {Env(<<>>, <<NsA>>, fs, offset) : fs \in SmallFileSystems, offset \in LocalOffsets}
    \cup {Env(flag, <<>>, Outside, 0) : flag \in {<<>>, <<<<"1">>>>}}
    \cup {Env(<<>>, <<NsA>>, fs, 0) : fs \in CrowdedFileSystems}

Init == \E e \in MainEnvs : Start(e)

Next ==
    \/ GetNameservers
    \/ TryNameserver
    \/ SystemFallback
    \/ VerifyLocal
    \/ UncaughtExit

Spec == Init /\ [][Next]_vars

----------------------------------------------------------------------------
(* single functions, applied to every argument of a bounded set *)

\* the process a function is applied in: no run under way
Idle == Fresh(Env(<<>>, <<>>, Outside, 0), "call")

\* a call of fn on arg that has not returned yet
Pending(fn, arg) == [fn |-> fn, arg |-> arg, done |-> FALSE, res |-> <<>>]

\* the call returns res
Return(fn, res) ==
    /\ call.fn = fn
    /\ ~call.done
    /\ call' = [call EXCEPT !.done = TRUE, !.res = res]
    /\ UNCHANGED <<env, pc, runVars, mainVars>>

\* the largest skew, in seconds, the verdict is computed for
MaxSkew == 3700

InitVerdict ==
    /\ Idle
    /\ \E hash_ok \in BOOLEAN, skew \in (-MaxSkew)..MaxSkew :
          call = Pending("verdict_from_hash_and_skew",
                         [hash_ok |-> hash_ok, skew |-> skew])

ApplyVerdict ==
    Return("verdict_from_hash_and_skew",
           <<verdict_from_hash_and_skew(call.arg.hash_ok, call.arg.skew)>>)

SpecVerdict == InitVerdict /\ [][ApplyVerdict]_vars

\* how far from HashLen the lengths of the hash values parsed range
MaxOver == 1

\* n hexadecimal characters
HexRun(n) == [i \in 1..n |-> IF i % 2 = 1 THEN "3" ELSE "e"]

\* the values a TS= token is given: None (no token), or <<value>>
TsValues == {<<>>, <<<<>>>>, <<TsZ>>, <<TsNaive>>, <<TsBad>>}

\* the values a SHA256= token is given
ShaValues ==
    {<<>>, <<<<>>>>, <<HexA>>, <<UpperA>>, <<[HexA EXCEPT ![10] = "g"]>>}
    \cup {<<HexRun(n)>> : n \in (HashLen - MaxOver)..(HashLen + MaxOver)}

\* the values a FILE= token is given
FileValues == {<<>>, <<NameA>>}

\* the orders the three tokens are written in
FieldOrders ==
    {<<"TS", "SHA256", "FILE">>, <<"TS", "FILE", "SHA256">>,
     <<"SHA256", "TS", "FILE">>, <<"SHA256", "FILE", "TS">>,
     <<"FILE", "TS", "SHA256">>, <<"FILE", "SHA256", "TS">>}

\* the token of field f of fields, None when the field has no value
Token(fields, f) ==
    CASE f = "TS" ->
           IF fields.ts = <<>> THEN <<>> ELSE <<TS_MARK \o fields.ts[1]>>
      [] f = "SHA256" ->
           IF fields.sha = <<>> THEN <<>> ELSE <<SHA_MARK \o fields.sha[1]>>
      [] f = "FILE" ->
           IF fields.file = <<>> THEN <<>> ELSE <<FILE_MARK \o fields.file[1]>>

\* the TXT value that carries the tokens of fields, in the order given,
\* separated by ';'
Render(fields, order) ==
    JoinWith(Token(fields, order[1]) \o Token(fields, order[2])
                 \o Token(fields, order[3]), <<";">>)

InitParse ==
    /\ Idle
    /\ \E ts \in TsValues, sha \in ShaValues, file \in FileValues,
          order \in FieldOrders :
          call = Pending("parse_dns_txt",
                         [ts |-> ts, sha |-> sha, file |-> file, order |-> order,
                          txt |-> Render([ts |-> ts, sha |-> sha, file |-> file],
                                         order)])

ApplyParse == Return("parse_dns_txt", <<parse_dns_txt(call.arg.txt)>>)

SpecParse == InitParse /\ [][ApplyParse]_vars

TwoDigits(k) == <<DigitChar(k \div 10), DigitChar(k % 10)>>

\* the text 2024-<month>-<day>T<hour>:30:15
Stamp(month, day, hour) ==
    <<"2","0","2","4","-">> \o TwoDigits(month) \o <<"-">> \o TwoDigits(day)
        \o <<"T">> \o TwoDigits(hour) \o <<":","3","0",":","1","5">>

\* what follows the time: nothing, Z, or an offset
ZoneMarks == {<<>>, <<"Z">>, <<"+","0","1",":","0","0">>, <<"-","0","5",":","0","0">>}

\* datetimes with no zone marker, among them days that do not exist
NaiveTexts == {Stamp(mo, d, h) : mo \in {1, 2, 7}, d \in {1, 29, 30}, h \in {0, 23}}

\* the offsets from UTC, in seconds, of the host zones the conversion runs in
HostOffsets == {0, 3600, -18000}

InitTime ==
    /\ Idle
    /\ \E text \in NaiveTexts, mark \in ZoneMarks, offset \in HostOffsets :
          call = Pending("iso_to_unix",
                         [text |-> text, mark |-> mark, local_utcoffset |-> offset])

ApplyTime ==
    Return("iso_to_unix",
           <<iso_to_unix(call.arg.text \o call.arg.mark, call.arg.local_utcoffset)>>)

SpecTime == InitTime /\ [][ApplyTime]_vars

\* the TXT values published, with the hash each carries (None when it is no
\* proof): two proofs, a text with blanks at both ends, and the empty text
Payloads ==
    {[text |-> Txt(TsZ, HexA, <<NameA>>), sha |-> <<HexA>>],
     [text |-> Txt(TsZ, UpperA, <<>>), sha |-> <<UpperA>>],
     [text |-> <<" ", "a", "b", " ">>, sha |-> <<>>],
     [text |-> <<>>, sha |-> <<>>]}

\* where dig cuts a value into segments: nowhere, after 2 characters, inside
\* the hash, before and inside the hash
CutSets == {{}, {2}, {40}, {20, 60}}

\* the segments of text cut after the positions K
Pieces(text, K) ==
    LET inside == {c \in K : c < Len(text)}
        n == Cardinality(inside)
    IN  [r \in 1..(n + 1) |->
            SubSeq(text,
                   IF r = 1 THEN 1 ELSE Nth(inside, r - 1) + 1,
                   IF r = n + 1 THEN Len(text) ELSE Nth(inside, r))]

\* what dig writes between two quoted segments
Separators == {<<>>, <<" ">>, <<"\n">>, <<" ", "\n", " ">>}

\* what surrounds dig's output: <<before, after>>
Paddings == {<<<<>>, <<>>>>, <<<<>>, <<"\n">>>>, <<<<" ">>, <<" ", "\n">>>>}

RECURSIVE QuoteEach(_)
QuoteEach(segs) ==
    IF segs = <<>> THEN <<>> ELSE <<Quoted(Head(segs))>> \o QuoteEach(Tail(segs))

\* dig's output for a value: its segments quoted ("quoted"), the value as it
\* is ("bare"), or the value with one lone quote character in it ("stray")
DigOutput(form, segs, sep, pad) ==
    pad[1]
      \o (CASE form = "quoted" -> JoinWith(QuoteEach(segs), sep)
            [] form = "bare" -> Join(segs)
            [] form = "stray" -> Head(segs) \o <<"\"">> \o Join(Tail(segs)))
      \o pad[2]

InitClean ==
    /\ Idle
    /\ \E payload \in Payloads, K \in CutSets, sep \in Separators,
          pad \in Paddings, form \in {"quoted", "bare", "stray"} :
          call = Pending("_clean_dig_txt",
                         [payload |-> payload, segs |-> Pieces(payload.text, K),
                          sep |-> sep, form |-> form,
                          raw |-> DigOutput(form, Pieces(payload.text, K), sep, pad)])

ApplyClean == Return("_clean_dig_txt", <<_clean_dig_txt(call.arg.raw)>>)

SpecClean == InitClean /\ [][ApplyClean]_vars

\* an evidence file name that has the text TS= in it: heartbeats_TS=1.json
NameTs == GLOB_PREFIX \o <<"T","S","=","1">> \o GLOB_SUFFIX

\* the fields of well-formed proofs: a timestamp, a hash of HashLen lower-case
\* hexadecimal characters, a file name
ProofTimestamps == {TsZ, TsNaive, TsOffset}

ProofHashes == {HexA, HexB, HexRun(HashLen)}

ProofFilenames == {NameA, NameB, NameTs}

InitRoundTrip ==
    /\ Idle
    /\ \E ts \in ProofTimestamps, sha \in ProofHashes, file \in ProofFilenames,
          order \in FieldOrders :
          call = Pending("parse_dns_txt",
                         [ts |-> <<ts>>, sha |-> <<sha>>, file |-> <<file>>,
                          order |-> order,
                          txt |-> Render([ts |-> <<ts>>, sha |-> <<sha>>,
                                          file |-> <<file>>], order)])

SpecRoundTrip == InitRoundTrip /\ [][ApplyParse]_vars

----------------------------------------------------------------------------
(* what the claims speak of *)

\* the positions in queries of the TXT queries sent to a named nameserver
AuthoritativeAt == {i \in 1..Len(queries) :
                       queries[i].qtype = "TXT" /\ queries[i].server # <<>>}

\* the positions in queries of the TXT queries sent with no nameserver target
SystemAt == {i \in 1..Len(queries) :
                queries[i].qtype = "TXT" /\ queries[i].server = <<>>}

\* a reply carries a payload: dig succeeded and printed something besides
\* quotes and white space
Yields(reply) ==
    /\ reply.rc = 0
    /\ \E i \in 1..Len(reply.out) : reply.out[i] \notin (Whitespace \cup {"\""})

\* the fallback flag is enabled: the variable is set to the text 1
FlagEnabled == env.POA_DNS_ALLOW_SYSTEM_RESOLVER = <<<<"1">>>>

\* the fetch has ended, with a value or with an error
FetchEnded == pc \in {"fetched", "raised", "exited"}

\* the fetch returned a value
FetchReturned == dns_txt # <<>>

\* C1: with the fallback flag not enabled, no TXT query is issued without a
\* nameserver target, and a fetch in which every authoritative query erred or
\* came back empty ends in an error, never in a value.
C1_AuthoritativeOnly ==
    ~FlagEnabled =>
        /\ SystemAt = {}
        /\ (FetchEnded /\ \A i \in AuthoritativeAt : ~Yields(queries[i].reply))
              => (pc = "raised" /\ exc.kind # "" /\ ~FetchReturned)

\* C1 witness: the flag is set to a text other than 1, both nameservers were
\* asked, neither yielded, and the fetch failed
C1_Witness ==
    /\ env.POA_DNS_ALLOW_SYSTEM_RESOLVER = <<<<"t","r","u","e">>>>
    /\ Cardinality(AuthoritativeAt) = 2
    /\ \E i \in AuthoritativeAt : queries[i].reply.rc # 0
    /\ \E i \in AuthoritativeAt : queries[i].reply.rc = 0
    /\ pc = "raised"
    /\ exc.kind = "No TXT returned"

\* C2: the k-th authoritative query goes to the k-th nameserver of the list, so
\* each is tried once and in order; a query that yields nothing does not end
\* the fetch while a nameserver is left; a query that yields ends it at once,
\* and its nameserver and payload are the result.
C2_FirstAnswerWins ==
    /\ Cardinality(AuthoritativeAt) <= Len(ns_list)
    /\ \A k \in 1..Cardinality(AuthoritativeAt) :
          LET q == queries[Nth(AuthoritativeAt, k)]
          IN  /\ q.server = <<ns_list[k]>>
              /\ Yields(q.reply) =>
                    /\ k = Cardinality(AuthoritativeAt)
                    /\ Nth(AuthoritativeAt, k) = Len(queries)
                    /\ pc \in {"fetched", "raised", "exited"}
                    /\ used_ns = ns_list[k]
                    /\ dns_txt = _clean_dig_txt(q.reply.out)
    /\ (FetchEnded /\ ns_list # <<>>
            /\ \A i \in AuthoritativeAt : ~Yields(queries[i].reply))
          => Cardinality(AuthoritativeAt) = Len(ns_list)

\* C2 witness: the query to the first of two nameservers failed, and the fetch
\* returned what the second answered
C2_Witness ==
    /\ pc = "fetched"
    /\ ns_list = <<NsB, NsA>>
    /\ Cardinality(AuthoritativeAt) = 2
    /\ queries[Nth(AuthoritativeAt, 1)].reply.rc # 0
    /\ used_ns = NsA
    /\ dns_txt = Txt(TsZ, HexB, <<NameB>>)

C4_VerdictMatrix ==
    (call.fn = "verdict_from_hash_and_skew" /\ call.done) =>
        LET h == call.arg.hash_ok
            k == call.arg.skew
            v == call.res[1]
        IN  /\ v \in {"OK", "WARN", "FAIL"}
            /\ v = "FAIL" <=> ~h
            /\ v = "OK" <=> (h /\ -600 <= k /\ k <= 600)
            /\ v = "WARN" <=> (h /\ (k < -600 \/ k > 600))
            /\ v = verdict_from_hash_and_skew(h, -k)

\* C4 witness: matching hashes and a skew of -3601 seconds gave WARN
C4_Witness ==
    /\ call.fn = "verdict_from_hash_and_skew"
    /\ call.done
    /\ call.arg = [hash_ok |-> TRUE, skew |-> -3601]
    /\ call.res = <<"WARN">>

\* the run has called find_local_match: fetch, parse and conversion succeeded
Matched == found # <<>>

\* the proof's time as the run converted it
TimestampEpoch == iso_to_unix(proof[1].ts_iso, env.local_utcoffset).val

\* the matcher selected a file
Selected == Matched /\ found[1].path # <<>>

\* the selected file can be read and its digest is the proof's
SelectedHashMatches ==
    /\ Selected
    /\ IsHit(sha256_file(env.fs, found[1].path[1]), proof[1].sha256)

\* the selected file can be read and its digest is not the proof's
SelectedHashDiffers ==
    /\ Selected
    /\ sha256_file(env.fs, found[1].path[1]).exc = ""
    /\ ~SelectedHashMatches

SelectedSkew == GetMTime(env.fs, found[1].path[1]) - TimestampEpoch

\* the verdicts printed, in order
VerdictsPrinted ==
    SelectSeq(stdout, LAMBDA line : line[1] = "VERDICT")

\* the verdict that goes with an exit status
VerdictOf(code) == IF code = 0 THEN "OK" ELSE IF code = 1 THEN "WARN" ELSE "FAIL"

\* C5: a run past fetch, parse and conversion exits with 0 only if the selected
\* file's digest is the proof's and |skew| <= 600, with 1 exactly when the
\* digest matches and |skew| > 600, with 2 exactly when no file was selected or
\* the digest differs; and the verdict printed is the one of the exit status.
C5_ExitCodeOfVerdict ==
    (pc = "exited" /\ Matched) =>
        /\ exit_code = <<0>> => (SelectedHashMatches /\ Abs(SelectedSkew) <= 600)
        /\ exit_code = <<1>> <=> (SelectedHashMatches /\ Abs(SelectedSkew) > 600)
        /\ exit_code = <<2>> <=> (~Selected \/ SelectedHashDiffers)
        /\ VerdictsPrinted # <<>>
        /\ \A k \in 1..Len(VerdictsPrinted) :
              VerdictsPrinted[k][2] = VerdictOf(exit_code[1])

\* C5, for the runs in which main returned: the part of the claim that holds
C5_WhenMainReturns == (exc.kind = "") => C5_ExitCodeOfVerdict

\* C6: every run that an error ended has exit status 2.
C6_ErrorsExitWith2 == (pc = "exited" /\ exc.kind # "") => exit_code = <<2>>

\* C7: every run that has ended has printed a VERDICT line.
C7_VerdictAlwaysPrinted == (pc = "exited") => VerdictsPrinted # <<>>

\* the path tier 1 of find_local_match looks at; the proof has a filename
HintedPath == PathJoin(export_dir, proof[1].filename[1])

\* tier 1 applies: the proof names a file and the path built from it exists
HintExists == proof[1].filename # <<>> /\ PathExists(env.fs, HintedPath)

\* the candidates of the hash scan: the entries of the export directory whose
\* names match the evidence pattern
Candidates == {i \in 1..Len(env.fs) : InGlob(env.fs, RealPath(export_dir), i)}

\* candidate i can be read and holds the proof's content
HoldsProof(i) == env.fs[i].readable /\ Lower(env.fs[i].digest) = proof[1].sha256

CandidatePath(i) == PathJoin(export_dir, env.fs[i].path[Len(env.fs[i].path)])

\* C8: if the proof has a filename and exportDir/filename exists, the matcher
\* returns that file tagged matched_by_filename, having hashed no file.
C8_FilenameFirst ==
    (Matched /\ HintExists) =>
        /\ found[1].path = <<HintedPath>>
        /\ found[1].how = <<"matched_by_filename">>
        /\ found[1].hashed = <<>>

\* tier 1 selected a file that does not hold the proof's content while another
\* candidate does
C8_Witness ==
    /\ Matched /\ HintExists
    /\ found[1].how = <<"matched_by_filename">>
    /\ ~IsHit(sha256_file(env.fs, HintedPath), proof[1].sha256)
    /\ \E i \in Candidates : HoldsProof(i) /\ CandidatePath(i) # HintedPath

\* the candidates with fewer than LOOKBACK_FILES candidates modified after them
Window(cands) ==
    {i \in cands :
        Cardinality({j \in cands : env.fs[j].mtime > env.fs[i].mtime}) < LOOKBACK_FILES}

WindowPaths(cands) == {CandidatePath(i) : i \in Window(cands)}

ScanBounded(m, paths) ==
    /\ Len(m.hashed) <= LOOKBACK_FILES
    /\ \A k \in 1..Len(m.hashed) : m.hashed[k] \in paths
    /\ m.path # <<>> => m.path[1] \in paths

\* C9: when tier 1 selects nothing, at most LOOKBACK_FILES files are hashed,
\* all of them among the LOOKBACK_FILES most recently modified candidates; a
\* file outside them is never returned, and when no file among them holds the
\* proof's content the result is no match.
C9_ScanBound ==
    (Matched /\ ~HintExists) =>
        /\ ScanBounded(found[1], WindowPaths(Candidates))
        /\ (\A i \in Window(Candidates) : ~HoldsProof(i)) => found[1].path = <<>>

\* more than LOOKBACK_FILES candidates, the only one holding the proof's
\* content older than the window: a full window was hashed and nothing matched
C9_Witness ==
    /\ Matched /\ ~HintExists
    /\ Cardinality(Candidates) > LOOKBACK_FILES
    /\ \E i \in Candidates \ Window(Candidates) : HoldsProof(i)
    /\ Len(found[1].hashed) = LOOKBACK_FILES
    /\ found[1].path = <<>>

\* a TS= token is absent, or present with no value
TsMissing(a) == a.ts = <<>> \/ a.ts[1] = <<>>

\* a SHA256= token whose value is exactly HashLen hexadecimal characters
ShaWellFormed(a) ==
    /\ a.sha # <<>>
    /\ Len(a.sha[1]) = 64
    /\ \A i \in 1..Len(a.sha[1]) : a.sha[1][i] \in HexChars

\* C10: parsing fails with the format error whenever the TS= token or the
\* SHA256= token is absent or malformed, whatever the other tokens are; and
\* with a TS= value, a well-formed SHA256= and no FILE= token it succeeds,
\* with no filename.
C10_FormatErrors ==
    (call.fn = "parse_dns_txt" /\ call.done) =>
        /\ (TsMissing(call.arg) \/ ~ShaWellFormed(call.arg))
              => call.res[1].exc = "Unrecognized TXT format"
        /\ (~TsMissing(call.arg) /\ ShaWellFormed(call.arg) /\ call.arg.file = <<>>)
              => (call.res[1].exc = "" /\ call.res[1].val.filename = <<>>)

\* C10, for every hash value of at most HashLen characters: the part of the
\* claim the parser keeps
C10_UpToHashLen ==
    (call.fn = "parse_dns_txt" /\ call.done
        /\ (call.arg.sha = <<>> \/ Len(call.arg.sha[1]) <= HashLen))
        => C10_FormatErrors

\* C11: a SHA256= token is accepted only when its value is exactly HashLen
\* hexadecimal characters, and the hash parsed is that value in lower case.
C11_ExactlyHashLen ==
    (call.fn = "parse_dns_txt" /\ call.done /\ ~TsMissing(call.arg)) =>
        /\ call.res[1].exc = "" <=> ShaWellFormed(call.arg)
        /\ call.res[1].exc = "" => call.res[1].val.sha256 = Lower(call.arg.sha[1])

\* C12: a datetime with no offset marker converts to the epoch seconds of the
\* same text followed by Z, in every host zone.
C12_NaiveIsUtc ==
    (call.fn = "iso_to_unix" /\ call.done /\ call.arg.mark = <<>>) =>
        call.res[1] = iso_to_unix(call.arg.text \o <<"Z">>, call.arg.local_utcoffset)

\* C12, on a host whose zone is UTC: there the conversions agree
C12_OnUtcHost ==
    (call.fn = "iso_to_unix" /\ call.arg.local_utcoffset = 0) => C12_NaiveIsUtc

\* C13: the value cleaned from dig's output is its quoted segments, in order,
\* with nothing between them (and trimmed), so a hash cut by a quote boundary
\* is parsed whole; an output with no quoted segment gives the value without
\* its quote characters, trimmed.
C13_SegmentsConcatenated ==
    (call.fn = "_clean_dig_txt" /\ call.done) =>
        /\ call.arg.form = "quoted" => call.res[1] = Strip(Join(call.arg.segs))
        /\ call.arg.form # "quoted" => call.res[1] = Strip(call.arg.payload.text)
        /\ (call.arg.form = "quoted" /\ call.arg.payload.sha # <<>>) =>
              /\ parse_dns_txt(call.res[1]).exc = ""
              /\ parse_dns_txt(call.res[1]).val.sha256 = Lower(call.arg.payload.sha[1])

\* a proof whose hash dig cut in two segments on two lines has been cleaned
C13_Witness ==
    /\ call.fn = "_clean_dig_txt" /\ call.done
    /\ call.arg.form = "quoted"
    /\ call.arg.payload.sha # <<>>
    /\ Len(call.arg.segs) = 2
    /\ Len(call.arg.segs[1]) = 40
    /\ "\n" \in {call.arg.sep[i] : i \in 1..Len(call.arg.sep)}
    /\ call.res[1] = call.arg.payload.text

\* the positions in queries of the NS queries
NsAt == {i \in 1..Len(queries) : queries[i].qtype = "NS"}

\* the nameservers the TXT queries were sent to, in the order of the queries
TriedServers ==
    [k \in 1..Cardinality(AuthoritativeAt) |-> queries[Nth(AuthoritativeAt, k)].server[1]]

IsPrefix(a, b) == Len(a) <= Len(b) /\ a = SubSeq(b, 1, Len(a))

\* POA_DNS_NS_OVERRIDE as the process reads it: "" when unset
OverrideText == Getenv(env.POA_DNS_NS_OVERRIDE, <<>>)

\* no authoritative query yielded, and the fetch is over
NothingYielded ==
    FetchEnded /\ \A i \in AuthoritativeAt : ~Yields(queries[i].reply)

\* the nameservers list is the one tried: in its order, up to the first
\* that yields, and whole when none does
TriedFrom(list) ==
    /\ IsPrefix(TriedServers, list)
    /\ NothingYielded => TriedServers = list

\* C14: with a non-empty override no NS query is issued, and the nameservers
\* tried are the entries of the override, as written and in its order.
C14_OverrideVerbatim ==
    (OverrideText # <<>>) =>
        /\ NsAt = {}
        /\ TriedFrom(Split(OverrideText, ","))

\* the entries of the override with the blanks around them and the dots after
\* them removed, and the entries that are blank left out
OverrideEntries ==
    LET written == SelectSeq(Split(OverrideText, ","), LAMBDA x : Strip(x) # <<>>)
    IN  [k \in 1..Len(written) |-> RStripChars(Strip(written[k]), {"."})]

\* C14 as the code has it: with an override that is not blank no NS query is
\* issued, and the nameservers tried are its entries in order, each without
\* the blanks around it and the dots after it, blank entries left out.
C14_OverrideNormalised ==
    (Strip(OverrideText) # <<>>) =>
        /\ NsAt = {}
        /\ TriedFrom(OverrideEntries)

\* an override written "b., a,," was tried whole, as b then a, with no NS query
C14_Witness ==
    /\ OverrideText = NsB \o <<".", ",", " ">> \o NsA \o <<",", ",">>
    /\ NothingYielded
    /\ TriedServers = <<NsB, NsA>>
    /\ NsAt = {}

\* the path p names a location below the export directory
InsideExportDir(p) ==
    /\ Len(RealPath(p)) > Len(RealPath(export_dir))
    /\ SubSeq(RealPath(p), 1, Len(RealPath(export_dir))) = RealPath(export_dir)

\* C15: the file the matcher returns, on either tier and for every filename
\* the TXT value carries, is a location inside the export directory.
C15_InsideExportDir == Selected => InsideExportDir(found[1].path[1])

\* C15, for the hash scan: the files it returns are inside the export directory
C15_HashScanInside ==
    (Selected /\ found[1].how = <<"matched_by_hash_scan">>)
        => InsideExportDir(found[1].path[1])

\* the candidates that are among the LOOKBACK_FILES most recently modified
\* however files of one modification time are ordered
SurelyInWindow(cands) ==
    {i \in cands :
        Cardinality({j \in cands \ {i} : env.fs[j].mtime >= env.fs[i].mtime})
            < LOOKBACK_FILES}

\* the modification times of the files hashed, in the order of the hashing
HashedTimes == [k \in 1..Len(found[1].hashed) |-> GetMTime(env.fs, found[1].hashed[k])]

\* the file hashed k-th holds the proof's content and could be read
HashedHit(k) == IsHit(sha256_file(env.fs, found[1].hashed[k]), proof[1].sha256)

\* C16: when tier 1 selects nothing, the files are hashed from the most to the
\* least recently modified; the scan returns, tagged matched_by_hash_scan, the
\* first that can be read and holds the proof's content, so the most recent
\* such file of the window; a file that cannot be read is passed over; and no
\* match is returned only when no readable file of the window holds it.
C16_NewestMatchWins ==
    (Matched /\ ~HintExists) =>
        /\ \A k \in 1..(Len(HashedTimes) - 1) : HashedTimes[k] >= HashedTimes[k + 1]
        /\ Selected =>
              /\ found[1].how = <<"matched_by_hash_scan">>
              /\ found[1].hashed # <<>>
              /\ found[1].path[1] = found[1].hashed[Len(found[1].hashed)]
              /\ HashedHit(Len(found[1].hashed))
              /\ \A k \in 1..(Len(found[1].hashed) - 1) : ~HashedHit(k)
              /\ \A i \in Window(Candidates) :
                    HoldsProof(i) => env.fs[i].mtime <= HashedTimes[Len(HashedTimes)]
        /\ ~Selected =>
              /\ found[1].how = <<>>
              /\ \A i \in SurelyInWindow(Candidates) : ~HoldsProof(i)

\* the newest candidate holds the proof's content but cannot be read: the scan
\* passed over it and returned an older file that holds it too
C16_Witness ==
    /\ Matched /\ ~HintExists /\ Selected
    /\ found[1].how = <<"matched_by_hash_scan">>
    /\ Len(found[1].hashed) >= 2
    /\ sha256_file(env.fs, found[1].hashed[1]).exc # ""
    /\ \E i \in Candidates :
          /\ CandidatePath(i) = found[1].hashed[1]
          /\ Lower(env.fs[i].digest) = proof[1].sha256

\* C17: when the NS query exits non-zero the fetch fails with that error, and
\* no TXT query is issued, to a nameserver or to the system resolver, whatever
\* the fallback flag is.
C17_LookupFailurePropagates ==
    \A i \in NsAt :
        queries[i].reply.rc # 0 =>
            /\ pc \in {"raised", "exited"}
            /\ exc = CommandFailed
            /\ ~FetchReturned
            /\ AuthoritativeAt = {}
            /\ SystemAt = {}
            /\ Len(queries) = 1

\* the NS query failed with the fallback enabled, and the fetch failed with it
C17_Witness ==
    /\ FlagEnabled
    /\ NsAt = {1}
    /\ queries[1].reply.rc # 0
    /\ pc = "raised"
    /\ exc.kind = "Command failed"

\* the error of the last nameserver query that erred, None when none did
LastNameserverError ==
    LET erred == {i \in AuthoritativeAt : queries[i].reply.rc # 0}
    IN  IF erred = {} THEN <<>>
        ELSE <<[kind |-> "Command failed", server |-> queries[Max(erred)].server[1]]>>

\* the list of nameservers was obtained and no query of the fetch yielded
FetchYieldedNothing ==
    /\ FetchEnded
    /\ \A i \in NsAt : queries[i].reply.rc = 0
    /\ \A i \in AuthoritativeAt \cup SystemAt : ~Yields(queries[i].reply)

\* C18: a fetch in which no nameserver and no fallback query yielded, by
\* erring or by answering nothing, fails with the no-TXT error, which carries
\* the name, the zone and the error of the last nameserver query that erred.
C18_NoTxtError ==
    FetchYieldedNothing =>
        /\ pc \in {"raised", "exited"}
        /\ exc = [kind |-> "No TXT returned", name |-> DNS_NAME_DEFAULT,
                  zone |-> DNS_ZONE_DEFAULT, last_err |-> LastNameserverError]

\* C18, for the fetches whose fallback query, if one was sent, did not err:
\* the part of the claim that holds
C18_UnlessFallbackErrs ==
    (\A i \in SystemAt : queries[i].reply.rc = 0) => C18_NoTxtError

\* C19: a timestamp, a hash and a file name rendered as tokens in any of the
\* six orders parse back to the same timestamp, hash and file name.
C19_RoundTrip ==
    (call.fn = "parse_dns_txt" /\ call.done) =>
        call.res[1] = Returned([ts_iso |-> call.arg.ts[1],
                                sha256 |-> call.arg.sha[1],
                                filename |-> call.arg.file])

\* C19, for the file names that hold no TS= text: the part of the claim that
\* holds
C19_PlainFilenames ==
    (call.fn = "parse_dns_txt" /\ call.arg.file # <<NameTs>>) => C19_RoundTrip

====
